---------------------------- MODULE Spec2Model ----------------------------
(***************************************************************************)
(* Model of lasspia's preprocessing routine (routines/preprocessing.py):   *)
(* the index type selection iType, the redshift histogram pdfZ and the     *)
(* angular tables built by ang.                                            *)
(*                                                                         *)
(* Numbers.  Coordinates (ra, dec, z) are integers counting half units, so *)
(* the range (0,2) is <<0, 4>> and the point 0.5 is 1.  Weights count      *)
(* half units too (weight 1.0 is 2, weight 0.5 is 1); a squared weight     *)
(* counts quarter units.  Every such value and every sum of a few of them  *)
(* is exactly representable in float32 and float64, so the floating point  *)
(* arithmetic of numpy is exact on the inputs used here.  A normalised     *)
(* weight w / sum(w) is kept as the exact fraction <<num, den>>.           *)
(***************************************************************************)
EXTENDS Integers, Sequences, FiniteSets, TLC

VARIABLES
    pc,        \* "load" while the inputs are being chosen, "done" after the call
    iMax,      \* iType: the argument, as limbs <<hi, lo>> of hi * 2^16 + lo
    iTypeOut,  \* iType: the width in bits of the returned numpy type, 0 before
    ctlgR,     \* the random catalog: a sequence of points
    ctlgD,     \* the observed catalog: a sequence of points
    pdfzOut,   \* pdfZ: the HDU it returns
    angOut     \* ang: the two HDUs it returns, and the library variant it ran on

vars == <<pc, iMax, iTypeOut, ctlgR, ctlgD, pdfzOut, angOut>>

(***************************************************************************)
(* Bounds of the model.                                                    *)
(***************************************************************************)
MaxPtsZ == 3    \* points of the random catalog given to pdfZ
MaxPtsR == 1    \* points of the random catalog given to ang
MaxPtsD == 2    \* points of the observed catalog given to ang

(***************************************************************************)
(* The configuration: binningZ, binningRA, binningDec of the config class, *)
(* with the small bin counts of a test configuration ({bins:3,range:(0,3)} *)
(* for z, {bins:2,range:(0,2)} for ra and dec), ranges in half units.      *)
(***************************************************************************)
binningZ == [bins |-> 3, range |-> <<0, 6>>]
binningRA == [bins |-> 2, range |-> <<0, 4>>]
binningDec == [bins |-> 2, range |-> <<0, 4>>]

None == [none |-> TRUE]

Point(ra, dec, z, weight, weightNoZ, weightZ) ==
    [ra |-> ra, dec |-> dec, z |-> z,
     weight |-> weight, weightNoZ |-> weightNoZ, weightZ |-> weightZ]

(***************************************************************************)
(* Sequence helpers.                                                       *)
(***************************************************************************)
RECURSIVE SumSeq(_)
SumSeq(s) == IF s = <<>> THEN 0 ELSE s[1] + SumSeq(Tail(s))

Map(s, F(_)) == [k \in 1..Len(s) |-> F(s[k])]

Min(a, b) == IF a < b THEN a ELSE b
Max(a, b) == IF a > b THEN a ELSE b

(***************************************************************************)
(* iType.  np.iinfo(np.int16).max = 2^15 - 1, np.iinfo(np.int32).max =     *)
(* 2^31 - 1.  The argument is held as two limbs so that 2^31 is a value.   *)
(***************************************************************************)
Int16Max == <<0, 32767>>
Int32Max == <<32767, 65535>>

LimbLess(a, b) == a[1] < b[1] \/ (a[1] = b[1] /\ a[2] < b[2])

iType(m) ==
    IF LimbLess(m, Int16Max) THEN 16
    ELSE IF LimbLess(m, Int32Max) THEN 32
    ELSE 64

(***************************************************************************)
(* numpy's histogram binning over `bins` equal bins of range <<lo, hi>>:   *)
(* bin i is [edge i, edge i+1), the last bin is closed on the right, and a *)
(* value outside the range is in no bin.                                   *)
(***************************************************************************)
NoBin == -1

HistEdges(b) ==
    [i \in 1..(b.bins + 1) |->
        b.range[1] + ((i - 1) * (b.range[2] - b.range[1])) \div b.bins]

HistBinOpenLast(v, b) ==
    IF v < b.range[1] \/ v >= b.range[2] THEN NoBin
    ELSE ((v - b.range[1]) * b.bins) \div (b.range[2] - b.range[1])

HistBin(v, b) ==
    IF v < b.range[1] \/ v > b.range[2] THEN NoBin
    ELSE IF v = b.range[2] THEN b.bins - 1
    ELSE ((v - b.range[1]) * b.bins) \div (b.range[2] - b.range[1])

\* np.histogram(vals, weights = wts, **b): the weighted count of every bin,
\* accumulated point by point in catalog order.
RECURSIVE HistFill(_, _, _, _, _)
HistFill(frq, vals, wts, b, k) ==
    IF k > Len(vals) THEN frq
    ELSE LET i == HistBin(vals[k], b)
         IN  HistFill(IF i = NoBin THEN frq
                      ELSE [frq EXCEPT ![i + 1] = @ + wts[k]],
                      vals, wts, b, k + 1)

histogram(vals, wts, b) ==
    HistFill([i \in 1..b.bins |-> 0], vals, wts, b, 1)

\* How many of the values fall into each bin.
histogramHits(vals, b) ==
    HistFill([i \in 1..b.bins |-> 0], vals, [k \in 1..Len(vals) |-> 1], b, 1)

(***************************************************************************)
(* pdfZ.  The weights are divided by sum(ctlg.weightZ) before binning: the *)
(* probability of a bin is the fraction <<sum of its weightZ, total>>.     *)
(* Dividing by a zero total raises nothing in numpy: a non-zero weight     *)
(* becomes inf, a zero weight nan, and a bin holding such a point is inf   *)
(* or nan ("undefined" here); a bin holding no point stays 0.  zip stops   *)
(* at the shorter of its arguments (edges has bins+1 entries, frq bins).   *)
(***************************************************************************)
Undefined == [undefined |-> TRUE]

ZipUpperEdge(a, b) == [i \in 1..Min(Len(a), Len(b)) |-> <<a[i + 1], b[i]>>]

Zip(a, b) == [i \in 1..Min(Len(a), Len(b)) |-> <<a[i], b[i]>>]

Normalized(hits, num, total) ==
    IF hits = 0 THEN <<0, 1>>
    ELSE IF total = 0 THEN Undefined
    ELSE <<num, total>>

pdfZ(ctlg) ==
    LET z == Map(ctlg, LAMBDA p : p.z)
        w == Map(ctlg, LAMBDA p : p.weightZ)
        total == SumSeq(w)
        num == histogram(z, w, binningZ)
        hits == histogramHits(z, binningZ)
        frq == [i \in 1..binningZ.bins |-> Normalized(hits[i], num[i], total)]
        edges == HistEdges(binningZ)
        rows == Zip(edges, frq)
    IN  [status |-> "ok",
         name |-> "pdfZ",
         rows |-> [i \in 1..Len(rows) |->
                     [lowEdge |-> rows[i][1], probability |-> rows[i][2]]]]

(***************************************************************************)
(* Column conversions of the FITS table.  A float array given to a column  *)
(* of format 'I' is cast to int16: the fraction is cut off (towards zero)  *)
(* and the integer wraps to 16 bits.  h counts half units.                 *)
(***************************************************************************)
TruncDiv(a, d) == IF a >= 0 THEN a \div d ELSE -((-a) \div d)

ToInt16(n) == ((n + 32768) % 65536) - 32768

FloatToInt16(h) == ToInt16(TruncDiv(h, 2))

(***************************************************************************)
(* La.utils.toBins(ary, binning): the bin index of a value, with the edge  *)
(* convention of the histogram inside the range.  Outside the range the    *)
(* index is either clipped to the first or last bin ("clip") or left where *)
(* the linear formula puts it, outside 0..bins-1 ("outside").              *)
(***************************************************************************)
ToBinsPolicies == {"clip", "outside"}

toBins(v, b, policy) ==
    LET lo == b.range[1]
        hi == b.range[2]
        j == ((v - lo) * b.bins) \div (hi - lo)
    IN  IF v = hi THEN b.bins - 1
        ELSE IF policy = "clip" THEN Max(0, Min(b.bins - 1, j))
        ELSE j

(***************************************************************************)
(* np.histogram2d(x, y, weights = w, **binning2D): the weighted count of   *)
(* every cell <<i, j>>; a point outside either range is in no cell.        *)
(***************************************************************************)
Cells == (0..(binningRA.bins - 1)) \X (0..(binningDec.bins - 1))

RECURSIVE Hist2dFill(_, _, _, _, _)
Hist2dFill(h, x, y, w, k) ==
    IF k > Len(x) THEN h
    ELSE LET i == HistBin(x[k], binningRA)
             j == HistBin(y[k], binningDec)
         IN  Hist2dFill(IF i = NoBin \/ j = NoBin THEN h
                        ELSE [h EXCEPT ![<<i, j>>] = @ + w[k]],
                        x, y, w, k + 1)

histogram2d(x, y, w) == Hist2dFill([c \in Cells |-> 0], x, y, w, 1)

\* mask = np.logical_or(angR > 0, angD > 0)
maskBoth(angR, angD) == [c \in Cells |-> angR[c] > 0 /\ angD[c] > 0]

mask(angR, angD) == [c \in Cells |-> angR[c] > 0 \/ angD[c] > 0]

\* The cells in the order numpy ravels an array of shape (binsRA, binsDec):
\* row-major, flat index binsDec * i + j.
Ravel ==
    [f \in 1..(binningRA.bins * binningDec.bins) |->
        <<(f - 1) \div binningDec.bins, (f - 1) % binningDec.bins>>]

\* xx[mask], yy[mask], angR[mask], angD[mask]: the masked cells in ravel order.
Masked(m) == SelectSeq(Ravel, LAMBDA c : m[c])

\* mask.ravel() as the set of flat indices that are set.
MaskFlat(m) == {f \in 0..(Len(Ravel) - 1) : m[Ravel[f + 1]]}

(***************************************************************************)
(* scipy's csr_matrix((weights, (jAng, jZ)), shape): entries at the same   *)
(* (row, column) are summed, an entry whose sum is zero stays stored, and  *)
(* an index outside the shape raises ValueError.  The matrix is the        *)
(* function from its stored (row, column) keys to their values.            *)
(***************************************************************************)
AccumOverwrite(old, w) == w

Accum(old, w) == old + w

RECURSIVE CsrFill(_, _, _, _, _)
CsrFill(m, rows, cols, wts, k) ==
    IF k > Len(rows) THEN m
    ELSE LET key == <<rows[k], cols[k]>>
         IN  CsrFill(IF key \in DOMAIN m
                     THEN [m EXCEPT ![key] = Accum(@, wts[k])]
                     ELSE [q \in (DOMAIN m) \cup {key} |->
                             IF q = key THEN wts[k] ELSE m[q]],
                     rows, cols, wts, k + 1)

CsrIndexError(rows, cols, nRows, nCols) ==
    \E k \in 1..Len(rows) :
        \/ rows[k] < 0 \/ rows[k] >= nRows
        \/ cols[k] < 0 \/ cols[k] >= nCols

csr_matrix(wts, rows, cols) == CsrFill(<<>>, rows, cols, wts, 1)

\* All (row, column) keys of the shape in the order CSR stores them.
CsrOrder(nRows, nCols) ==
    [f \in 1..(nRows * nCols) |-> <<(f - 1) \div nCols, (f - 1) % nCols>>]

\* frq[mask.ravel()]: the rows whose flat index is set, renumbered in order.
\* Depending on the scipy version the selection keeps the stored zeros (row
\* indexing) or drops them (selection by a product with an extractor matrix):
\* `prune` says which.  The result lists its stored entries in CSR order.
SelectRows(m, flat, prune) ==
    LET nRows == binningRA.bins * binningDec.bins
        kept == SelectSeq(CsrOrder(nRows, binningZ.bins),
                          LAMBDA q : /\ q \in DOMAIN m
                                     /\ q[1] \in flat
                                     /\ (prune => m[q] # 0))
    IN  [e \in 1..Len(kept) |->
            [row |-> Cardinality({f \in flat : f < kept[e][1]}),
             col |-> kept[e][2],
             val |-> m[kept[e]]]]

\* angzD.nonzero(): the (row, column) of the stored entries that are not zero.
nonzero(entries) == SelectSeq(entries, LAMBDA e : e.val # 0)

\* fits.BinTableHDU.from_columns: the table has as many rows as its longest
\* column, and a shorter column is filled up with zeros.
Pad(col, n) == [k \in 1..n |-> IF k <= Len(col) THEN col[k] ELSE 0]

(***************************************************************************)
(* ang(ctlgR, ctlgD) on a library variant lib = [toBins, prune].  A       *)
(* ValueError of csr_matrix leaves ang without returning any HDU.  The     *)
(* columns of format 'J' (iAlign, 32 bits) and 'E' (countD, count, err2:   *)
(* float32) hold the values that occur here unchanged.                     *)
(***************************************************************************)
ang(cR, cD, lib) ==
    LET angR == histogram2d(Map(cR, LAMBDA p : p.ra), Map(cR, LAMBDA p : p.dec),
                            Map(cR, LAMBDA p : p.weightNoZ))
        angD == histogram2d(Map(cD, LAMBDA p : p.ra), Map(cD, LAMBDA p : p.dec),
                            Map(cD, LAMBDA p : p.weight))
        msk == mask(angR, angD)
        sel == Masked(msk)
        hdu == [k \in 1..Len(sel) |->
                  [binRA |-> ToInt16(sel[k][1]),
                   binDec |-> ToInt16(sel[k][2]),
                   countR |-> FloatToInt16(angR[sel[k]]),
                   countD |-> angD[sel[k]]]]
        binsZ == binningZ.bins
        binsRA == binningRA.bins
        binsDec == binningDec.bins
        jZ == Map(cD, LAMBDA p : toBins(p.z, binningZ, lib.toBins))
        jRA == Map(cD, LAMBDA p : toBins(p.ra, binningRA, lib.toBins))
        jDec == Map(cD, LAMBDA p : toBins(p.dec, binningDec, lib.toBins))
        jAng == [k \in 1..Len(cD) |-> binsDec * jRA[k] + jDec[k]]
        calcAngZD(weights) ==
            SelectRows(csr_matrix(weights, jAng, jZ), MaskFlat(msk), lib.prune)
        angzD == calcAngZD(Map(cD, LAMBDA p : p.weight))
        err2 == calcAngZD(Map(cD, LAMBDA p : p.weight * p.weight))
        nz == nonzero(angzD)
        n == Max(Len(nz), Max(Len(angzD), Len(err2)))
        iA == Pad(Map(nz, LAMBDA e : e.row), n)
        iZ == Pad(Map(nz, LAMBDA e : e.col), n)
        count == Pad(Map(angzD, LAMBDA e : e.val), n)
        e2 == Pad(Map(err2, LAMBDA e : e.val), n)
    IN  IF CsrIndexError(jAng, jZ, binsRA * binsDec, binsZ)
        THEN [status |-> "ValueError", lib |-> lib]
        ELSE [status |-> "ok", lib |-> lib,
              ang |-> hdu,
              angzD |-> [k \in 1..n |->
                           [iAlign |-> iA[k], iZ |-> ToInt16(iZ[k]),
                            count |-> count[k], err2 |-> e2[k]]]]

(***************************************************************************)
(* The inputs.                                                             *)
(***************************************************************************)
\* Arguments of iType around 0, 2^15 - 1, 2^16, 2^31 - 1 and 2^31.
IMaxInputs ==
    {0, 1, 32766, 32767, 32768}
        \X ((0..3) \cup (32765..32769) \cup (65533..65535))

\* Random points as pdfZ reads them (z, weightZ): below, on every edge of,
\* inside and above the range of binningZ.
ZPoints ==
    {Point(0, 0, z, 0, 0, w) : z \in {-1, 0, 1, 2, 3, 5, 6, 7}, w \in {0, 1, 2}}

\* Random points as ang reads them (ra, dec, weightNoZ): weight 0.5 and 1.0
\* in one cell, and a point above the range of dec.
RPoints ==
    {Point(1, 1, 0, 0, 1, 0), Point(1, 1, 0, 0, 2, 0), Point(1, 5, 0, 0, 2, 0)}

\* Observed points as ang reads them (ra, dec, z, weight): weights -1.0, 0,
\* 1.0 and 2.0 in one cell and z bin, points of the other cells and z bins
\* inside and on the edges of the ranges, and points outside a range.
DPoints ==
    {Point(1, 1, 1, w, 0, 0) : w \in {-2, 0, 2, 4}}
        \cup {Point(3, 3, 1, 4, 0, 0), Point(1, 4, 3, 2, 0, 0),
              Point(0, 2, 0, 2, 0, 0), Point(4, 0, 6, 2, 0, 0)}
        \cup {Point(-1, 1, 1, 2, 0, 0), Point(1, 5, 1, 2, 0, 0),
              Point(3, -1, 1, 2, 0, 0), Point(1, 1, 7, 2, 0, 0)}

LibVariants == [toBins : ToBinsPolicies, prune : BOOLEAN]

(***************************************************************************)
(* iType as a state machine: an argument is chosen, then iType is called.  *)
(***************************************************************************)
InitIType ==
    /\ pc = "load"
    /\ iMax \in IMaxInputs
    /\ iTypeOut = 0
    /\ ctlgR = <<>>
    /\ ctlgD = <<>>
    /\ pdfzOut = None
    /\ angOut = None

CallIType ==
    /\ pc = "load"
    /\ iTypeOut' = iType(iMax)
    /\ pc' = "done"
    /\ UNCHANGED <<iMax, ctlgR, ctlgD, pdfzOut, angOut>>

NextIType == CallIType

SpecIType == InitIType /\ [][NextIType]_vars

(***************************************************************************)
(* pdfZ as a state machine: the random catalog is read point by point,     *)
(* then pdfZ is called on it.                                              *)
(***************************************************************************)
InitCatalogs ==
    /\ pc = "load"
    /\ iMax = <<0, 0>>
    /\ iTypeOut = 0
    /\ ctlgR = <<>>
    /\ ctlgD = <<>>
    /\ pdfzOut = None
    /\ angOut = None

ReadRandomZ ==
    /\ pc = "load"
    /\ Len(ctlgR) < MaxPtsZ
    /\ \E p \in ZPoints : ctlgR' = Append(ctlgR, p)
    /\ UNCHANGED <<pc, iMax, iTypeOut, ctlgD, pdfzOut, angOut>>

CallPdfZ ==
    /\ pc = "load"
    /\ pdfzOut' = pdfZ(ctlgR)
    /\ pc' = "done"
    /\ UNCHANGED <<iMax, iTypeOut, ctlgR, ctlgD, angOut>>

NextPdf == ReadRandomZ \/ CallPdfZ

SpecPdf == InitCatalogs /\ [][NextPdf]_vars

(***************************************************************************)
(* ang as a state machine: both catalogs are read point by point, then ang *)
(* is called on them, on one of the library variants.                      *)
(***************************************************************************)
ReadRandom ==
    /\ pc = "load"
    /\ Len(ctlgR) < MaxPtsR
    /\ \E p \in RPoints : ctlgR' = Append(ctlgR, p)
    /\ UNCHANGED <<pc, iMax, iTypeOut, ctlgD, pdfzOut, angOut>>

ReadObserved ==
    /\ pc = "load"
    /\ Len(ctlgD) < MaxPtsD
    /\ \E p \in DPoints : ctlgD' = Append(ctlgD, p)
    /\ UNCHANGED <<pc, iMax, iTypeOut, ctlgR, pdfzOut, angOut>>

CallAng ==
    /\ pc = "load"
    /\ \E lib \in LibVariants : angOut' = ang(ctlgR, ctlgD, lib)
    /\ pc' = "done"
    /\ UNCHANGED <<iMax, iTypeOut, ctlgR, ctlgD, pdfzOut>>

NextAng == ReadRandom \/ ReadObserved \/ CallAng

SpecAng == InitCatalogs /\ [][NextAng]_vars

(***************************************************************************)
(* Vocabulary of the properties, stated from the bin intervals and not     *)
(* from the binning formulas above.                                        *)
(***************************************************************************)
InRange(v, b) == b.range[1] <= v /\ v <= b.range[2]

\* v lies in bin i (0-based): [edge i, edge i+1), the last bin closed.
InBin(v, b, i) ==
    LET w == b.range[2] - b.range[1]
        x == (v - b.range[1]) * b.bins
    IN  \/ i * w <= x /\ x < (i + 1) * w
        \/ i = b.bins - 1 /\ v = b.range[2]

InCell(p, c) == InBin(p.ra, binningRA, c[1]) /\ InBin(p.dec, binningDec, c[2])

\* The sum of W over the points of a catalog that satisfy P.
SumWhere(ctlg, P(_), W(_)) ==
    SumSeq([k \in 1..Len(ctlg) |-> IF P(ctlg[k]) THEN W(ctlg[k]) ELSE 0])

CellCountR(c) == SumWhere(ctlgR, LAMBDA p : InCell(p, c), LAMBDA p : p.weightNoZ)
CellCountD(c) == SumWhere(ctlgD, LAMBDA p : InCell(p, c), LAMBDA p : p.weight)

AngDone == pc = "done" /\ angOut # None /\ angOut.status = "ok"
PdfDone == pc = "done" /\ pdfzOut # None

\* The rows of ang holding cell c.
AngRowsOf(c) ==
    {k \in 1..Len(angOut.ang) :
        angOut.ang[k].binRA = c[1] /\ angOut.ang[k].binDec = c[2]}

PermsOf(n) ==
    {f \in [1..n -> 1..n] : \A i, j \in 1..n : f[i] = f[j] => i = j}

\* a/b + c/d and a/b = 1 on fractions <<numerator, denominator>>.
FracAdd(x, y) == <<x[1] * y[2] + y[1] * x[2], x[2] * y[2]>>

RECURSIVE FracSum(_)
FracSum(s) == IF s = <<>> THEN <<0, 1>> ELSE FracAdd(s[1], FracSum(Tail(s)))

FracEq(x, y) == x[1] * y[2] = y[1] * x[2]

Probabilities == [k \in 1..Len(pdfzOut.rows) |-> pdfzOut.rows[k].probability]

TotalWeightZ == SumWhere(ctlgR, LAMBDA p : TRUE, LAMBDA p : p.weightZ)

InRangeWeightZ ==
    SumWhere(ctlgR, LAMBDA p : InRange(p.z, binningZ), LAMBDA p : p.weightZ)

BinWeightZ(i) ==
    SumWhere(ctlgR, LAMBDA p : InBin(p.z, binningZ, i), LAMBDA p : p.weightZ)

(***************************************************************************)
(* C2.  Whenever ang returns its tables, the ang table has exactly one row *)
(* for every angular cell whose random weighted count or observed weighted *)
(* count is positive and no other row; with one random point (0.5, 0.5) of *)
(* weight 1 and one observed point (1.5, 1.5) of weight 2 the table is the *)
(* rows (0, 0, countR = 1, countD = 0) and (1, 1, countR = 0, countD = 2)  *)
(* (countD counts half units: 4).                                          *)
(***************************************************************************)
C2_Scenario ==
    /\ Len(ctlgR) = 1 /\ Len(ctlgD) = 1
    /\ ctlgR[1].ra = 1 /\ ctlgR[1].dec = 1 /\ ctlgR[1].weightNoZ = 2
    /\ ctlgD[1].ra = 3 /\ ctlgD[1].dec = 3 /\ ctlgD[1].weight = 4

C2_AngRowsAreOccupiedCells ==
    AngDone =>
        /\ \A c \in Cells :
              Cardinality(AngRowsOf(c)) =
                  IF CellCountR(c) > 0 \/ CellCountD(c) > 0 THEN 1 ELSE 0
        /\ \A k \in 1..Len(angOut.ang) :
              <<angOut.ang[k].binRA, angOut.ang[k].binDec>> \in Cells
        /\ C2_Scenario =>
              angOut.ang = << [binRA |-> 0, binDec |-> 0, countR |-> 1, countD |-> 0],
                              [binRA |-> 1, binDec |-> 1, countR |-> 0, countD |-> 4] >>

C2_Witness == AngDone /\ C2_Scenario /\ Len(angOut.ang) = 2

(***************************************************************************)
(* C3.  Every row of the ang table has a stored countR > 0 or a stored     *)
(* countD > 0, also when the random weights are fractional.                *)
(***************************************************************************)
C3_NoEmptyStoredRow ==
    AngDone =>
        \A k \in 1..Len(angOut.ang) :
            angOut.ang[k].countR > 0 \/ angOut.ang[k].countD > 0

(***************************************************************************)
(* Vocabulary of the angzD properties.  The key of an observed point is    *)
(* the pair (row of the ang table that holds its angular cell, z bin).     *)
(***************************************************************************)
PointInRange(p) ==
    /\ InRange(p.ra, binningRA)
    /\ InRange(p.dec, binningDec)
    /\ InRange(p.z, binningZ)

\* The observed points of angular cell number iAlign of the ang table and
\* of z bin iZ.
HasKey(p, iAlign, iZ) ==
    /\ iAlign + 1 \in 1..Len(angOut.ang)
    /\ InCell(p, <<angOut.ang[iAlign + 1].binRA, angOut.ang[iAlign + 1].binDec>>)
    /\ InBin(p.z, binningZ, iZ)

KeyCount(iAlign, iZ) ==
    SumWhere(ctlgD, LAMBDA p : HasKey(p, iAlign, iZ), LAMBDA p : p.weight)

KeyErr2(iAlign, iZ) ==
    SumWhere(ctlgD, LAMBDA p : HasKey(p, iAlign, iZ),
             LAMBDA p : p.weight * p.weight)

NonZeroKeys ==
    {q \in (0..(Len(angOut.ang) - 1)) \X (0..(binningZ.bins - 1)) :
        KeyCount(q[1], q[2]) # 0}

\* The index an observed point was accumulated at by ang: the number of
\* masked cells before its flat angular index, and its z index.
AccumulatedAt(p, iAlign, iZ) ==
    LET flat == binningDec.bins * toBins(p.ra, binningRA, angOut.lib.toBins)
                    + toBins(p.dec, binningDec, angOut.lib.toBins)
        occupied == {f \in 0..(Len(Ravel) - 1) :
                        CellCountR(Ravel[f + 1]) > 0 \/ CellCountD(Ravel[f + 1]) > 0}
    IN  /\ flat \in occupied
        /\ iAlign = Cardinality({f \in occupied : f < flat})
        /\ iZ = toBins(p.z, binningZ, angOut.lib.toBins)

(***************************************************************************)
(* C1.  Every iAlign of the angzD table is a row index of the ang table,   *)
(* and that ang row holds the angular cell of every observed point that    *)
(* was accumulated into the angzD row.                                     *)
(***************************************************************************)
C1_JoinConsistency ==
    AngDone =>
        \A k \in 1..Len(angOut.angzD) :
            LET r == angOut.angzD[k]
            IN  /\ r.iAlign \in 0..(Len(angOut.ang) - 1)
                /\ \A n \in 1..Len(ctlgD) :
                      AccumulatedAt(ctlgD[n], r.iAlign, r.iZ) =>
                          InCell(ctlgD[n], <<angOut.ang[r.iAlign + 1].binRA,
                                             angOut.ang[r.iAlign + 1].binDec>>)

\* The same for observed catalogs all of whose points lie within the bin
\* ranges: there the flat index binsDec * jRA + jDec agrees with the ravel
\* order of the mask.
C1_JoinConsistencyInRange ==
    (\A n \in 1..Len(ctlgD) : PointInRange(ctlgD[n])) => C1_JoinConsistency

(***************************************************************************)
(* C4.  For an observed catalog within the bin ranges, the angzD table has *)
(* exactly one row per (iAlign, iZ) key of non-zero accumulated weight,    *)
(* and in every row count is the sum of the weights and err2 the sum of    *)
(* the squared weights of the observed points of that key.                 *)
(***************************************************************************)
C4_AngzDRowsMatchKeys ==
    (AngDone /\ \A n \in 1..Len(ctlgD) : PointInRange(ctlgD[n])) =>
        LET rows == angOut.angzD
        IN  /\ Len(rows) = Cardinality(NonZeroKeys)
            /\ \A k \in 1..Len(rows) :
                  /\ <<rows[k].iAlign, rows[k].iZ>> \in NonZeroKeys
                  /\ rows[k].count = KeyCount(rows[k].iAlign, rows[k].iZ)
                  /\ rows[k].err2 = KeyErr2(rows[k].iAlign, rows[k].iZ)
            /\ \A k, l \in 1..Len(rows) :
                  (rows[k].iAlign = rows[l].iAlign /\ rows[k].iZ = rows[l].iZ)
                      => k = l

(***************************************************************************)
(* C6.  Points outside the bin ranges are dropped without error: ang       *)
(* completes, and its tables are those of the catalogs without these       *)
(* points.                                                                 *)
(***************************************************************************)
WithoutOutOfRange(ctlg) == SelectSeq(ctlg, PointInRange)

C6_OutOfRangeDropped ==
    (pc = "done" /\ angOut # None) =>
        /\ angOut.status = "ok"
        /\ angOut = ang(WithoutOutOfRange(ctlgR), WithoutOutOfRange(ctlgD),
                        angOut.lib)

(***************************************************************************)
(* C8.  Reading the observed catalog in another order changes nothing: for *)
(* every permutation of its points ang returns the same ang table and the  *)
(* same angzD rows, with the same count and err2 for every key.            *)
(***************************************************************************)
Permuted(ctlg, f) == [k \in 1..Len(ctlg) |-> ctlg[f[k]]]

C8_OrderIndependence ==
    (pc = "done" /\ angOut # None) =>
        \A f \in PermsOf(Len(ctlgD)) :
            ang(ctlgR, Permuted(ctlgD, f), angOut.lib) = angOut

C8_Witness ==
    /\ AngDone
    /\ Len(ctlgD) = 2
    /\ ctlgD[1].weight = 2 /\ ctlgD[2].weight = 4
    /\ ctlgD[1].ra = ctlgD[2].ra /\ ctlgD[1].dec = ctlgD[2].dec
    /\ ctlgD[1].z = ctlgD[2].z
    /\ Len(angOut.angzD) = 1
    /\ angOut.angzD[1].count = 6 /\ angOut.angzD[1].err2 = 20

(***************************************************************************)
(* C5.  As claimed: for a non-empty random catalog with a positive weightZ *)
(* sum the probabilities of the pdfZ table sum to 1.                       *)
(***************************************************************************)
C5_ProbabilitiesSumToOne ==
    (PdfDone /\ Len(ctlgR) > 0 /\ TotalWeightZ > 0) =>
        FracEq(FracSum(Probabilities), <<1, 1>>)

(***************************************************************************)
(* C5, amended.  For a non-empty random catalog with a positive weightZ    *)
(* sum the probabilities sum to the share of the weightZ sum carried by    *)
(* the points whose z lies within the range of the z bins; they sum to 1   *)
(* when every point lies within the range.                                 *)
(***************************************************************************)
C5_ProbabilitiesSumToInRangeShare ==
    (PdfDone /\ Len(ctlgR) > 0 /\ TotalWeightZ > 0) =>
        /\ FracEq(FracSum(Probabilities), <<InRangeWeightZ, TotalWeightZ>>)
        /\ (\A n \in 1..Len(ctlgR) : InRange(ctlgR[n].z, binningZ)) =>
              FracEq(FracSum(Probabilities), <<1, 1>>)

C5_Witness ==
    /\ PdfDone /\ Len(ctlgR) = 2 /\ TotalWeightZ = 3
    /\ ctlgR[1].z = binningZ.range[2] /\ ctlgR[1].weightZ = 1
    /\ ctlgR[2].z > binningZ.range[2]
    /\ FracEq(FracSum(Probabilities), <<1, 3>>)

(***************************************************************************)
(* C7.  pdfZ on a random catalog without points, or whose weightZ sum is   *)
(* zero, fails with EmptyWeightSum and returns no table.                   *)
(***************************************************************************)
C7_EmptyWeightSumFails ==
    (PdfDone /\ (Len(ctlgR) = 0 \/ TotalWeightZ = 0)) =>
        pdfzOut.status = "EmptyWeightSum"

(***************************************************************************)
(* C9.  iType returns the smallest width among 16, 32 and 64 bits whose    *)
(* signed integers hold iMax.                                              *)
(***************************************************************************)
Holds(m, width) ==
    CASE width = 16 -> m[1] = 0 /\ m[2] <= 32767
      [] width = 32 -> m[1] <= 32767
      [] OTHER -> TRUE

C9_SmallestWidth ==
    pc = "done" /\ iTypeOut # 0 =>
        /\ iTypeOut \in {16, 32, 64}
        /\ Holds(iMax, iTypeOut)
        /\ \A w \in {16, 32, 64} : Holds(iMax, w) => iTypeOut <= w

(***************************************************************************)
(* C10.  As claimed: the pdfZ table has one row more than there are z      *)
(* bins.                                                                   *)
(***************************************************************************)
C10_RowsAreBinsPlusOne ==
    PdfDone => Len(pdfzOut.rows) = binningZ.bins + 1

(***************************************************************************)
(* C10, amended.  The pdfZ table has one row per z bin and no trailing     *)
(* row: row i pairs the lower edge of bin i with the probability of bin i; *)
(* for z = [0.5, 1.5, 2.5] with weightZ = [1, 1, 1] the rows are the low   *)
(* edges 0, 1, 2 (in half units 0, 2, 4), each with probability 1/3.       *)
(***************************************************************************)
C10_Scenario ==
    /\ Len(ctlgR) = 3
    /\ \A n \in 1..3 : ctlgR[n].z = 2 * n - 1 /\ ctlgR[n].weightZ = 1

C10_RowsAreBins ==
    PdfDone =>
        /\ Len(pdfzOut.rows) = binningZ.bins
        /\ \A i \in 1..Len(pdfzOut.rows) :
              /\ pdfzOut.rows[i].lowEdge * binningZ.bins =
                    binningZ.range[1] * binningZ.bins
                        + (i - 1) * (binningZ.range[2] - binningZ.range[1])
              /\ TotalWeightZ # 0 =>
                    FracEq(pdfzOut.rows[i].probability,
                           <<BinWeightZ(i - 1), TotalWeightZ>>)
        /\ C10_Scenario =>
              pdfzOut.rows = << [lowEdge |-> 0, probability |-> <<1, 3>>],
                                [lowEdge |-> 2, probability |-> <<1, 3>>],
                                [lowEdge |-> 4, probability |-> <<1, 3>>] >>

C10_Witness == PdfDone /\ C10_Scenario /\ Len(pdfzOut.rows) = 3

=============================================================================
